---- MODULE Spec2Model ----
(***************************************************************************)
(* Sandbagger golf round tracker: the score cell classification, the feed  *)
(* (visibility filter and per-round summary) and the player statistics     *)
(* screen (recency window, percentages, putting, club distances), over the *)
(* sb_* tables they query.                                                 *)
(*                                                                         *)
(* Encoding.  A nullable column or prop is a set with at most one element: *)
(* NULL is {} and the value v is {v}.  One-decimal numbers                 *)
(* (Math.round(x * 10) / 10) are kept as their number of tenths.           *)
(***************************************************************************)
EXTENDS Integers, Sequences, FiniteSets, TLC

VARIABLES
  user,               \* AuthContext: the logged-in user's id
  sb_rounds,          \* table sb_rounds: rows in physical (insertion) order
  sb_hole_scores,     \* table sb_hole_scores: rows in physical order
  sb_relationships,   \* table sb_relationships: a set of rows
  sb_shots,           \* table sb_shots: rows in physical (insertion) order
  rounds,             \* Feed: useState<FeedRound[]>
  allRounds,          \* Stats: useState<RoundStat[]>
  range,              \* Stats: useState<RangeOption>
  allScoresByRound,   \* Stats: Map round_id -> hole scores, in insertion order
  clubs,              \* Stats: useState<ClubStat[]>
  recentRounds,       \* Stats: useState<RecentRound[]>
  wedgeTotalsByRound, \* Stats: Map round_id -> wedge total, in insertion order
  cellScore,          \* ScoreCell: prop score
  cellPar,            \* ScoreCell: prop par
  cell,               \* ScoreCell: the branch rendered ("unrendered" before)
  roundsLegacy,       \* Feed, earlier revision kept in feed.tsx: useState<FeedRound[]>
  completed,          \* the loaders and handlers that have run to their end
  expandedId,         \* Feed: useState<string | null>
  holeScores,         \* Feed: useState<HoleScore[]>
  loadingScores,      \* Feed: useState(false)
  editing,            \* Feed: useState(false)
  editScores,         \* Feed: useState<HoleScore[]>
  pending,            \* Feed: round ids whose toggleExpand awaits its hole scores
  saves,              \* Feed: how many times saveEdits has run
  selectedCourse,     \* Log: the chosen course (null before selectCourse)
  holes,              \* Log: the course's rows of sb_holes, as their pars
  holeEntries,        \* Log: useState<HoleEntry[]>
  holeSelection,      \* Log: 'all' | 'front9' | 'back9' | 'custom'
  selectedHoles,      \* Log: useState<number[]>, as the set of its numbers
  trackWedgeAndIn,    \* Log: useState(false)
  trackingMode,       \* Log: 'basic' | 'advanced' (strategy and mental are notes only)
  visibility,         \* Log: useState('private')
  report,             \* Log: what saveRound told the user last ("none" before)
  bag,                \* Profile: useState<string[]>
  bagShown,           \* Profile: the bag of the last render, which toggleClub closes over
  bagStored,          \* AsyncStorage: the item sandbagger_bag_<user> (null if absent)
  bagWrites,          \* AsyncStorage: setItem calls of saveBag not yet carried out
  toggled,            \* Profile: the club of the last toggleClub call (null before)
  toggles,            \* Profile: how many times toggleClub has run
  overrides,          \* AsyncStorage: the item sb_hole_metadata_overrides, parsed
  metaCalls,          \* holeMetadata: calls that have read the overrides and not yet written
  metaLast            \* holeMetadata: per hole, the call that completed last

dbVars == <<sb_rounds, sb_hole_scores, sb_relationships, sb_shots>>
feedVars == <<rounds, roundsLegacy>>
statsVars == <<allRounds, range, allScoresByRound, clubs, recentRounds, wedgeTotalsByRound>>
cellVars == <<cellScore, cellPar, cell>>
editVars == <<expandedId, holeScores, loadingScores, editing, editScores, pending, saves>>
logVars == <<selectedCourse, holes, holeEntries, holeSelection, selectedHoles,
             trackWedgeAndIn, trackingMode, visibility, report>>
bagVars == <<bag, bagShown, bagStored, bagWrites, toggled, toggles>>
metaVars == <<overrides, metaCalls, metaLast>>

vars == <<user, dbVars, feedVars, statsVars, cellVars, completed, editVars, logVars,
          bagVars, metaVars>>

(***************************************************************************)
(* Bounds of the model.                                                    *)
(***************************************************************************)
MaxCellScore == 8    \* ScoreCell props: score in -NegCell..MaxCellScore or absent
MaxCellPar == 6      \* ScoreCell props: par in -NegCell..MaxCellPar or absent
NegCell == 3
MaxFeedRounds == 2   \* rounds in the tables when the feed's visibility is explored
MaxHoles == 3        \* holes of the round when one round's summary is explored
MaxRounds == 4       \* rounds in the tables when the recency window is explored
MaxShots == 3        \* rows of sb_shots when the club distances are explored
MaxEditRounds == 2   \* rounds in the tables when the feed's scorecard is edited
MaxSaves == 1        \* runs of saveEdits in one session of the feed
MaxLogSaves == 1     \* rounds stored in one session of the round wizard
MaxEntryScore == 2   \* the highest score entered for a hole in the wizard
MaxToggles == 3      \* runs of toggleClub in one session of the profile
MaxMetaCalls == 2    \* hole-detail calls in flight at once
MaxEntryCount == 1   \* the highest putts, penalties and wedge & in entered for a hole

(***************************************************************************)
(* JavaScript values.                                                      *)
(***************************************************************************)
NULL == {}
Some(v) == {v}
The(x) == CHOOSE v \in x : TRUE

\* !!x for a nullable number: null, undefined and 0 are falsy, every other
\* number (negative ones included) is truthy.
TruthyNum(x) == x # NULL /\ The(x) # 0

\* !!x for a nullable boolean.
TruthyBool(x) == x = Some(TRUE)

\* !!x for a string: only the empty string is falsy.
TruthyStr(x) == x # NULL /\ The(x) # ""

\* Math.round(n / d) for d > 0: the nearest integer, halves towards +infinity.
MathRound(n, d) == (2 * n + d) \div (2 * d)

(***************************************************************************)
(* Arrays.                                                                 *)
(***************************************************************************)
RECURSIVE SumSeq(_)
SumSeq(s) == IF s = <<>> THEN 0 ELSE Head(s) + SumSeq(Tail(s))

\* Array.prototype.map
Map(s, F(_)) == [i \in 1..Len(s) |-> F(s[i])]

\* Array.prototype.filter(...).length
Count(s, Test(_)) == Cardinality({i \in 1..Len(s) : Test(s[i])})

\* A stable sort: x goes after every element that Before does not put after it.
\* (Array.prototype.sort is stable; so is ORDER BY here, the keys being distinct.)
StableSort(s, Before(_, _)) ==
  LET Insert(sorted, x) ==
        LET p == Cardinality({i \in 1..Len(sorted) : ~Before(x, sorted[i])})
        IN SubSeq(sorted, 1, p) \o <<x>> \o SubSeq(sorted, p + 1, Len(sorted))
      f[i \in 0..Len(s)] == IF i = 0 THEN <<>> ELSE Insert(f[i - 1], s[i])
  IN f[Len(s)]

\* .limit(n)
Limit(s, n) == IF Len(s) <= n THEN s ELSE SubSeq(s, 1, n)

\* Array.prototype.slice(-n), n > 0: the last n elements, all when fewer.
SliceLast(s, n) == IF Len(s) <= n THEN s ELSE SubSeq(s, Len(s) - n + 1, Len(s))

\* The elements of a sequence.
Range(s) == {s[i] : i \in 1..Len(s)}

(***************************************************************************)
(* Feed.loadFeed                                                           *)
(***************************************************************************)
FeedLimit == 50

\* .order('date_played', { ascending: false })
OrderByDateDesc(s) == StableSort(s, LAMBDA a, b : a.date_played > b.date_played)

\* .order('date_played', { ascending: true })
OrderByDateAsc(s) == StableSort(s, LAMBDA a, b : a.date_played < b.date_played)

\* .order('hole_number')
OrderByHoleNumber(s) == StableSort(s, LAMBDA a, b : a.hole_number < b.hole_number)

\* A variant of followingIds that keeps only the people who follow me back.
followingIdsMutual ==
  {r.target_id : r \in {q \in sb_relationships :
      /\ q.user_id = user /\ q.type = "follow" /\ q.status = "accepted"
      /\ \E b \in sb_relationships :
           /\ b.user_id = q.target_id /\ b.target_id = user
           /\ b.type = "follow" /\ b.status = "accepted"}}

\* People I follow: user_id = me, type = 'follow', status = 'accepted'.
followingIds ==
  {r.target_id : r \in {q \in sb_relationships :
      q.user_id = user /\ q.type = "follow" /\ q.status = "accepted"}}

visibleUserIds == {user} \cup followingIds

\* The rounds query of loadFeed: complete rounds of me and of the people I
\* follow, newest first, at most 50.  The visibility column is not consulted.
FeedRoundsData ==
  Limit(OrderByDateDesc(SelectSeq(sb_rounds,
          LAMBDA r : r.is_complete /\ r.user_id \in visibleUserIds)), FeedLimit)

\* fairway_pct / gir_pct: null over an empty subset, else the rounded percentage.
PctOrNull(hit, tracked) == IF tracked # 0 THEN Some(MathRound(hit * 100, tracked)) ELSE NULL

\* A variant of FeedAvgPutts that divides by one round instead of the holes.
FeedAvgPuttsPerRound(hs) ==
  LET puttHoles == SelectSeq(hs, LAMBDA h : h.putts # NULL)
  IN IF Len(puttHoles) # 0
     THEN Some(MathRound(SumSeq(Map(puttHoles, LAMBDA h : The(h.putts))) * 10, 1))
     ELSE NULL

\* avg_putts of the feed: putts per hole that has putts, in tenths; null if none.
FeedAvgPutts(hs) ==
  LET puttHoles == SelectSeq(hs, LAMBDA h : h.putts # NULL)
  IN IF Len(puttHoles) # 0
     THEN Some(MathRound(SumSeq(Map(puttHoles, LAMBDA h : The(h.putts))) * 10, Len(puttHoles)))
     ELSE NULL

\* A variant of FeedFairwayPct that keeps the holes with no fairway data.
FeedFairwayPctNullAsMiss(hs) ==
  PctOrNull(Count(hs, LAMBDA h : TruthyBool(h.fairway_hit)), Len(hs))

\* fwHoles = hs.filter(h => h.fairway_hit !== null); hits over fwHoles.
FeedFairwayPct(hs) ==
  LET fwHoles == SelectSeq(hs, LAMBDA h : h.fairway_hit # NULL)
  IN PctOrNull(Count(fwHoles, LAMBDA h : TruthyBool(h.fairway_hit)), Len(fwHoles))

FeedGirPct(hs) ==
  LET girHoles == SelectSeq(hs, LAMBDA h : h.gir # NULL)
  IN PctOrNull(Count(girHoles, LAMBDA h : TruthyBool(h.gir)), Len(girHoles))

\* A variant of FeedWedgeTotal that takes a total of 0 for no total.
FeedWedgeTotalZeroAsNull(hs) ==
  LET wedgeScores == SelectSeq(hs, LAMBDA h : h.wedge_and_in # NULL)
      total == SumSeq(Map(wedgeScores, LAMBDA h : The(h.wedge_and_in)))
  IN IF total # 0 THEN Some(total) ELSE NULL

\* wedgeTotalsByRound.has(r.id) ? wedgeTotalsByRound.get(r.id) : null
FeedWedgeTotal(hs) ==
  LET wedgeScores == SelectSeq(hs, LAMBDA h : h.wedge_and_in # NULL)
  IN IF Len(wedgeScores) # 0
     THEN Some(SumSeq(Map(wedgeScores, LAMBDA h : The(h.wedge_and_in))))
     ELSE NULL

\* One FeedRound (weather, course and player are display joins and are left out).
FeedEntry(r) ==
  LET hs == SelectSeq(sb_hole_scores, LAMBDA h : h.round_id = r.id)
  IN [id |-> r.id, date_played |-> r.date_played, total_score |-> r.total_score,
      user_id |-> r.user_id, visibility |-> r.visibility,
      fairway_pct |-> FeedFairwayPct(hs),
      gir_pct |-> FeedGirPct(hs),
      avg_putts |-> FeedAvgPutts(hs),
      birdies |-> Count(hs, LAMBDA h : TruthyNum(h.score) /\ TruthyNum(h.par)
                                        /\ The(h.score) = The(h.par) - 1),
      eagles |-> Count(hs, LAMBDA h : TruthyNum(h.score) /\ TruthyNum(h.par)
                                       /\ The(h.score) <= The(h.par) - 2),
      wedge_total |-> FeedWedgeTotal(hs)]

loadFeed ==
  /\ rounds' = Map(FeedRoundsData, FeedEntry)
  /\ completed' = completed \cup {"loadFeed"}
  /\ UNCHANGED <<user, bagVars, metaVars, dbVars, roundsLegacy, statsVars, cellVars, editVars, logVars>>

(***************************************************************************)
(* Feed.loadFeed, the earlier revision in the same file.                   *)
(***************************************************************************)
\* Partner ids: the other end of every accepted relationship I am part of,
\* whatever its type and whichever way it points.
partnerIds ==
  {IF r.user_id = user THEN r.target_id ELSE r.user_id :
     r \in {q \in sb_relationships :
              (q.user_id = user \/ q.target_id = user) /\ q.status = "accepted"}}

LegacyVisible(r) ==
  \/ r.user_id = user
  \/ r.visibility = "public"
  \/ r.visibility = "partners" /\ r.user_id \in partnerIds

LegacyFeedEntry(r) ==
  LET hs == SelectSeq(sb_hole_scores, LAMBDA h : h.round_id = r.id)
  IN [id |-> r.id, date_played |-> r.date_played, total_score |-> r.total_score,
      user_id |-> r.user_id, visibility |-> r.visibility,
      fairway_pct |-> FeedFairwayPct(hs),
      gir_pct |-> FeedGirPct(hs),
      avg_putts |-> FeedAvgPutts(hs)]

loadFeedLegacy ==
  /\ roundsLegacy' =
       Map(SelectSeq(Limit(OrderByDateDesc(SelectSeq(sb_rounds, LAMBDA r : r.is_complete)),
                           FeedLimit),
                     LegacyVisible),
           LegacyFeedEntry)
  /\ completed' = completed \cup {"loadFeedLegacy"}
  /\ UNCHANGED <<user, bagVars, metaVars, dbVars, rounds, statsVars, cellVars, editVars, logVars>>

(***************************************************************************)
(* Feed: expanding a round, editing its scorecard, deleting it.            *)
(***************************************************************************)
\* .select('id, round_id, hole_number, score, putts, fairway_hit, gir, penalties, par')
HoleScoreCols(h) ==
  [id |-> h.id, round_id |-> h.round_id, hole_number |-> h.hole_number, score |-> h.score,
   putts |-> h.putts, fairway_hit |-> h.fairway_hit, gir |-> h.gir,
   penalties |-> h.penalties, par |-> h.par]

\* The hole scores of a round, by hole number: what toggleExpand's query returns.
HoleScoresData(roundId) ==
  Map(OrderByHoleNumber(SelectSeq(sb_hole_scores, LAMBDA h : h.round_id = roundId)),
      HoleScoreCols)

\* renderRound, for the feed item that is expanded with its scorecard shown.
ExpandedItems ==
  {i \in 1..Len(rounds) : expandedId = Some(rounds[i].id) /\ ~loadingScores}
isOwn(item) == item.user_id = user

\* toggleExpand(roundId), up to its await: collapse the expanded round, or
\* expand another one and ask for its hole scores.  A second request for a
\* round whose request is still in flight is answered together with the first.
toggleExpand(roundId) ==
  /\ \E i \in 1..Len(rounds) : rounds[i].id = roundId
  /\ IF expandedId = Some(roundId)
     THEN /\ expandedId' = NULL
          /\ holeScores' = <<>>
          /\ editing' = FALSE
          /\ UNCHANGED <<loadingScores, pending>>
     ELSE /\ expandedId' = Some(roundId)
          /\ editing' = FALSE
          /\ loadingScores' = TRUE
          /\ pending' = pending \cup {roundId}
          /\ UNCHANGED holeScores
  /\ UNCHANGED <<user, bagVars, metaVars, dbVars, feedVars, statsVars, cellVars, completed, editScores, saves, logVars>>

\* toggleExpand, after its await: the hole scores of the round it asked for arrive.
toggleExpandResume(roundId) ==
  /\ roundId \in pending
  /\ pending' = pending \ {roundId}
  /\ holeScores' = HoleScoresData(roundId)
  /\ loadingScores' = FALSE
  /\ UNCHANGED <<user, bagVars, metaVars, dbVars, feedVars, statsVars, cellVars, completed,
                 expandedId, editing, editScores, saves, logVars>>

\* The Edit button: shown on the expanded round when it is mine and not being edited.
startEdit ==
  /\ \E i \in ExpandedItems : isOwn(rounds[i]) /\ ~editing
  /\ editScores' = holeScores
  /\ editing' = TRUE
  /\ UNCHANGED <<user, bagVars, metaVars, dbVars, feedVars, statsVars, cellVars, completed,
                 expandedId, holeScores, loadingScores, pending, saves, logVars>>

\* The Cancel button.
cancelEdit ==
  /\ \E i \in ExpandedItems : isOwn(rounds[i]) /\ editing
  /\ editing' = FALSE
  /\ editScores' = <<>>
  /\ UNCHANGED <<user, bagVars, metaVars, dbVars, feedVars, statsVars, cellVars, completed,
                 expandedId, holeScores, loadingScores, pending, saves, logVars>>

\* onChangeText={v => updateEditScore(idx, 'score', parseInt(v) || 0)}: what the
\* score and putts inputs pass on for a typed text.
ParseIntOrZero(v) ==
  CASE v = "" -> 0        \* parseInt gives NaN
    [] v = "5" -> 5
    [] v = "-1" -> -1

\* onPress={() => updateEditScore(idx, 'fairway_hit', !hole.fairway_hit)}, and
\* the same for gir: the negation of a nullable boolean is never null.
Negated(x) == Some(~TruthyBool(x))

\* updateEditScore(idx, field, value) from the inputs of the scorecard being
\* edited: score and putts take parseInt(v) || 0, fairway_hit and gir are negated.
updateEditScore(idx, field, value) ==
  /\ ExpandedItems # {} /\ editing
  /\ idx \in 1..Len(editScores)
  /\ editScores' =
       [editScores EXCEPT ![idx] =
          CASE field = "score" -> [@ EXCEPT !.score = Some(value)]
            [] field = "putts" -> [@ EXCEPT !.putts = Some(value)]
            [] field = "fairway_hit" -> [@ EXCEPT !.fairway_hit = Negated(@)]
            [] field = "gir" -> [@ EXCEPT !.gir = Negated(@)]]
  /\ UNCHANGED <<user, bagVars, metaVars, dbVars, feedVars, statsVars, cellVars, completed,
                 expandedId, holeScores, loadingScores, editing, pending, saves, logVars>>

\* const newTotal = editScores.reduce((sum, h) => sum + (h.score || 0), 0)
NewTotal(es) == SumSeq(Map(es, LAMBDA h : IF TruthyNum(h.score) THEN The(h.score) ELSE 0))

\* The updates of saveEdits: every edited hole is written to the row with its id.
UpdatedHoleScores(es) ==
  Map(sb_hole_scores, LAMBDA h :
    IF \E k \in 1..Len(es) : es[k].id = h.id
    THEN LET e == es[CHOOSE k \in 1..Len(es) : es[k].id = h.id /\ \A j \in (k + 1)..Len(es) : es[j].id # h.id]
         IN [h EXCEPT !.score = e.score, !.putts = e.putts,
                      !.fairway_hit = e.fairway_hit, !.gir = e.gir]
    ELSE h)

\* saveEdits(roundId), from the Save button of the expanded round being edited.
\* Its writes are taken to succeed and to run without another handler in between.
saveEdits(roundId) ==
  /\ \E i \in ExpandedItems : rounds[i].id = roundId /\ isOwn(rounds[i]) /\ editing
  /\ sb_hole_scores' = UpdatedHoleScores(editScores)
  /\ sb_rounds' = Map(sb_rounds, LAMBDA r :
                    IF r.id = roundId THEN [r EXCEPT !.total_score = NewTotal(editScores)] ELSE r)
  /\ holeScores' = editScores
  /\ editing' = FALSE
  /\ rounds' = Map(rounds, LAMBDA r :
                 IF r.id = roundId THEN [r EXCEPT !.total_score = NewTotal(editScores)] ELSE r)
  /\ saves < MaxSaves
  /\ saves' = saves + 1
  /\ UNCHANGED <<user, bagVars, metaVars, sb_relationships, sb_shots, roundsLegacy, statsVars, cellVars,
                 completed, expandedId, loadingScores, editScores, pending, logVars>>

\* A variant of ShotsAfterDelete without the cascade.
ShotsKeptOnDelete(holeIds) == sb_shots

\* hole_score_id REFERENCES sb_hole_scores(id) ON DELETE CASCADE
ShotsAfterDelete(holeIds) == SelectSeq(sb_shots, LAMBDA s : s.hole_score_id \notin holeIds)

\* deleteRound(roundId), from the Delete Round button once confirmed: the hole
\* scores of the round (and with them their shots), then the round itself.
deleteRound(roundId) ==
  /\ \E i \in ExpandedItems : rounds[i].id = roundId /\ isOwn(rounds[i]) /\ ~editing
  /\ sb_hole_scores' = SelectSeq(sb_hole_scores, LAMBDA h : h.round_id # roundId)
  /\ sb_shots' = ShotsAfterDelete({h.id : h \in {g \in Range(sb_hole_scores) : g.round_id = roundId}})
  /\ sb_rounds' = SelectSeq(sb_rounds, LAMBDA r : r.id # roundId)
  /\ rounds' = SelectSeq(rounds, LAMBDA r : r.id # roundId)
  /\ expandedId' = NULL
  /\ holeScores' = <<>>
  /\ UNCHANGED <<user, bagVars, metaVars, sb_relationships, roundsLegacy, statsVars, cellVars, completed,
                 loadingScores, editing, editScores, pending, saves, logVars>>

(***************************************************************************)
(* Stats.loadStats                                                         *)
(***************************************************************************)
RecentLimit == 10

RECURSIVE Flatten(_)
Flatten(ss) == IF ss = <<>> THEN <<>> ELSE Head(ss) \o Flatten(Tail(ss))

\* The keys of a Map filled by walking s: each key once, in first-seen order.
FirstSeen(s, Key(_)) ==
  LET idx == SelectSeq([i \in 1..Len(s) |-> i],
                       LAMBDA i : \A j \in 1..(i - 1) : Key(s[j]) # Key(s[i]))
  IN Map(idx, LAMBDA i : Key(s[i]))

\* byRound: Map<round_id, rows>, as its entries in insertion order.
GroupByRound(scores) ==
  Map(FirstSeen(scores, LAMBDA h : h.round_id),
      LAMBDA k : [key |-> k, rows |-> SelectSeq(scores, LAMBDA h : h.round_id = k)])

\* The rounds query of loadStats: my complete rounds, oldest first.
StatsRoundsData ==
  Map(OrderByDateAsc(SelectSeq(sb_rounds, LAMBDA r : r.user_id = user /\ r.is_complete)),
      LAMBDA r : [id |-> r.id, date_played |-> r.date_played, total_score |-> r.total_score])

\* wedge_and_in !== null && typeof wedge_and_in === 'number'
WedgeHoles(hs) == SelectSeq(hs, LAMBDA h : h.wedge_and_in # NULL)

WedgeSum(hs) == SumSeq(Map(WedgeHoles(hs), LAMBDA h : The(h.wedge_and_in)))

\* wTotals: an entry only for a round with at least one tracked hole.
WedgeTotals(byRound) ==
  Map(SelectSeq(byRound, LAMBDA e : Len(WedgeHoles(e.rows)) > 0),
      LAMBDA e : [key |-> e.key, total |-> WedgeSum(e.rows)])

\* byRound.get(id) || []
RowsOf(byRound, id) ==
  LET hit == SelectSeq(byRound, LAMBDA e : e.key = id)
  IN IF hit = <<>> THEN <<>> ELSE hit[1].rows

\* A variant of RecentRound whose wedge subtotal is 0 when no hole is tracked.
RecentRoundZeroWedge(byRound, r) ==
  LET rScores == RowsOf(byRound, r.id)
  IN [id |-> r.id, date_played |-> r.date_played, total_score |-> r.total_score,
      holes |-> OrderByHoleNumber(Map(rScores, LAMBDA h :
                  [hole_number |-> h.hole_number, score |-> h.score,
                   par |-> IF TruthyNum(h.par) THEN The(h.par) ELSE 0,
                   putts |-> IF h.putts # NULL THEN The(h.putts) ELSE 0,
                   fairway_hit |-> h.fairway_hit, gir |-> TruthyBool(h.gir),
                   wedge_and_in |-> h.wedge_and_in])),
      wedge_total |-> Some(WedgeSum(rScores))]

\* One RecentRound (course_name is a display join and is left out).
RecentRound(byRound, r) ==
  LET rScores == RowsOf(byRound, r.id)
  IN [id |-> r.id, date_played |-> r.date_played, total_score |-> r.total_score,
      holes |-> OrderByHoleNumber(Map(rScores, LAMBDA h :
                  [hole_number |-> h.hole_number, score |-> h.score,
                   par |-> IF TruthyNum(h.par) THEN The(h.par) ELSE 0,
                   putts |-> IF h.putts # NULL THEN The(h.putts) ELSE 0,
                   fairway_hit |-> h.fairway_hit, gir |-> TruthyBool(h.gir),
                   wedge_and_in |-> h.wedge_and_in])),
      wedge_total |-> IF Len(WedgeHoles(rScores)) > 0 THEN Some(WedgeSum(rScores)) ELSE NULL]

\* The shots query: every row of sb_shots with club and distance_yards not
\* null.  It is not restricted to the user's hole scores.
ShotsData == SelectSeq(sb_shots, LAMBDA s : s.club # NULL /\ s.distance_yards # NULL)

\* if (!s.club || !s.distance_yards) return;
ShotCounted(s) == TruthyStr(s.club) /\ TruthyNum(s.distance_yards)

ClubAvg(dists) == MathRound(SumSeq(dists), Len(dists))

\* .sort((a, b) => b.avgDistance - a.avgDistance)
SortClubs(cs) == StableSort(cs, LAMBDA a, b : a.avgDistance > b.avgDistance)

ClubStats(shots) ==
  LET counted == SelectSeq(shots, ShotCounted)
      DistsOf(c) == Map(SelectSeq(counted, LAMBDA s : The(s.club) = c),
                        LAMBDA s : The(s.distance_yards))
  IN SortClubs(Map(FirstSeen(counted, LAMBDA s : The(s.club)),
                   LAMBDA c : [club |-> c, avgDistance |-> ClubAvg(DistsOf(c)),
                               count |-> Len(DistsOf(c))]))

loadStats ==
  LET rds == StatsRoundsData
      roundIds == {rds[i].id : i \in 1..Len(rds)}
      scores == OrderByHoleNumber(SelectSeq(sb_hole_scores, LAMBDA h : h.round_id \in roundIds))
      byRound == GroupByRound(scores)
      recentFull == Limit(OrderByDateDesc(SelectSeq(sb_rounds,
                      LAMBDA r : r.user_id = user /\ r.is_complete)), RecentLimit)
  IN /\ "loadStats" \notin completed   \* runs once, from the mount effect
     /\ allRounds' = rds
     /\ IF roundIds # {}
        THEN /\ allScoresByRound' = byRound
             /\ wedgeTotalsByRound' = WedgeTotals(byRound)
             /\ recentRounds' = Map(recentFull, LAMBDA r : RecentRound(byRound, r))
             /\ clubs' = IF Len(ShotsData) # 0 THEN ClubStats(ShotsData) ELSE clubs
        ELSE UNCHANGED <<allScoresByRound, wedgeTotalsByRound, recentRounds, clubs>>
     /\ completed' = completed \cup {"loadStats"}
     /\ UNCHANGED <<user, bagVars, metaVars, dbVars, feedVars, range, cellVars, editVars, logVars>>

(***************************************************************************)
(* Stats: the range pills and what the screen computes on each render.     *)
(***************************************************************************)
RangeOptions == {"all", "3", "5", "10", "25"}

\* parseInt on the numeric range keys.
ParseInt(str) ==
  CASE str = "3" -> 3 [] str = "5" -> 5 [] str = "10" -> 10 [] str = "25" -> 25

setRange(opt) ==
  /\ Len(allRounds) # 0       \* the pills are rendered only when there are rounds
  /\ range' = opt
  /\ UNCHANGED <<user, bagVars, metaVars, dbVars, feedVars, allRounds, allScoresByRound, clubs,
                 recentRounds, wedgeTotalsByRound, cellVars, completed, editVars, logVars>>

\* A variant of filteredRounds that takes the first N instead of the last N.
filteredRoundsFirstN == IF range = "all" THEN allRounds ELSE Limit(allRounds, ParseInt(range))

\* allRounds.slice(-parseInt(range))
filteredRounds == IF range = "all" THEN allRounds ELSE SliceLast(allRounds, ParseInt(range))

filteredIds == {filteredRounds[i].id : i \in 1..Len(filteredRounds)}

filteredScores ==
  Flatten(Map(SelectSeq(allScoresByRound, LAMBDA e : e.key \in filteredIds),
              LAMBDA e : e.rows))

\* In tenths; 0 when no round is selected.
avgScore ==
  IF Len(filteredRounds) # 0
  THEN MathRound(SumSeq(Map(filteredRounds, LAMBDA r : r.total_score)) * 10, Len(filteredRounds))
  ELSE 0

fwHoles == SelectSeq(filteredScores, LAMBDA h : h.fairway_hit # NULL)

fwPct ==
  IF Len(fwHoles) # 0
  THEN MathRound(Count(fwHoles, LAMBDA h : TruthyBool(h.fairway_hit)) * 100, Len(fwHoles))
  ELSE 0

girHoles == SelectSeq(filteredScores, LAMBDA h : h.gir # NULL)

girPct ==
  IF Len(girHoles) # 0
  THEN MathRound(Count(girHoles, LAMBDA h : TruthyBool(h.gir)) * 100, Len(girHoles))
  ELSE 0

puttHoles == SelectSeq(filteredScores, LAMBDA h : h.putts # NULL)

\* A variant of avgPutts that divides by the holes instead of the rounds.
avgPuttsPerHole ==
  IF Len(puttHoles) # 0 /\ Len(filteredRounds) # 0
  THEN MathRound(SumSeq(Map(puttHoles, LAMBDA h : The(h.putts))) * 10, Len(puttHoles))
  ELSE 0

\* Putts per round, in tenths; 0 when there is no putt data or no round.
avgPutts ==
  IF Len(puttHoles) # 0 /\ Len(filteredRounds) # 0
  THEN MathRound(SumSeq(Map(puttHoles, LAMBDA h : The(h.putts))) * 10, Len(filteredRounds))
  ELSE 0

onePuttsTotal == Count(puttHoles, LAMBDA h : The(h.putts) = 1)

threePuttsTotal == Count(puttHoles, LAMBDA h : The(h.putts) >= 3)

\* filteredRounds.length || 1
roundCount == IF Len(filteredRounds) # 0 THEN Len(filteredRounds) ELSE 1

\* (n / roundCount).toFixed(1), in tenths.
onePuttsPer18 == MathRound(onePuttsTotal * 10, roundCount)

threePuttsPer18 == MathRound(threePuttsTotal * 10, roundCount)

fwMisses ==
  SelectSeq(filteredScores, LAMBDA h : h.fairway_hit = Some(FALSE) /\ TruthyStr(h.fairway_miss_dir))

missLPct ==
  IF Len(fwMisses) # 0
  THEN MathRound(Count(fwMisses, LAMBDA h : h.fairway_miss_dir = Some("L")) * 100, Len(fwMisses))
  ELSE 0

missRPct ==
  IF Len(fwMisses) # 0
  THEN MathRound(Count(fwMisses, LAMBDA h : h.fairway_miss_dir = Some("R")) * 100, Len(fwMisses))
  ELSE 0

wedgeHolesFiltered == WedgeHoles(filteredScores)

wedgeInTotal == Len(wedgeHolesFiltered)

wedgeInMade == WedgeSum(filteredScores)

\* Recent Rounds, per round: birdies = holes.filter(h => h.score && h.par && h.score < h.par)
RecentBirdies(r) ==
  Count(r.holes, LAMBDA h : TruthyNum(h.score) /\ h.par # 0 /\ The(h.score) < h.par)

\* bogeys = holes.filter(h => h.score && h.par && h.score > h.par)
RecentBogeys(r) ==
  Count(r.holes, LAMBDA h : TruthyNum(h.score) /\ h.par # 0 /\ The(h.score) > h.par)

\* {wedgeInTotal > 0 && the Wedge & In section}
WedgeSectionShown == wedgeInTotal > 0

\* What a summary card shows: a number, or the dash that stands for no data.
Dash == [kind |-> "dash"]
Shown(n) == [kind |-> "number", value |-> n]

\* {avgScore || '-'}
AvgScoreCard == IF avgScore # 0 THEN Shown(avgScore) ELSE Dash

\* {fwPct}%
FairwaysCard == Shown(fwPct)

\* {girPct}%
GirCard == Shown(girPct)

\* {avgPutts || '-'}
PuttsCard == IF avgPutts # 0 THEN Shown(avgPutts) ELSE Dash

\* The Miss L / Miss R cards are rendered only when one of them is above 0.
MissCardsShown == missLPct > 0 \/ missRPct > 0

\* The summary is rendered only when the player has rounds ("No stats yet" otherwise).
StatsShown == Len(allRounds) # 0

(***************************************************************************)
(* The tables' contents the model starts from.                             *)
(***************************************************************************)
Users == {"A", "B"}
Visibilities == {"private", "partners", "public"}

\* Sequences over S of length at most n.
SeqsUpTo(S, n) == UNION {[1..k -> S] : k \in 0..n}

\* Hole scores as saveRound writes them (round_id, hole_number and id are added
\* when the round is stored).
ParHole ==      \* a par with two putts, fairway and green hit
  [par |-> Some(4), score |-> Some(4), putts |-> Some(2), fairway_hit |-> Some(TRUE),
   fairway_miss_dir |-> NULL, gir |-> Some(TRUE), penalties |-> 0, wedge_and_in |-> NULL]
BirdieHole ==   \* a birdie on a par 3: no fairway, wedge & in tracked at 0
  [par |-> Some(3), score |-> Some(2), putts |-> Some(1), fairway_hit |-> NULL,
   fairway_miss_dir |-> NULL, gir |-> Some(TRUE), penalties |-> 0, wedge_and_in |-> Some(0)]
EagleHole ==    \* an eagle on a par 5, fairway missed left, putts not recorded
  [par |-> Some(5), score |-> Some(3), putts |-> NULL, fairway_hit |-> Some(FALSE),
   fairway_miss_dir |-> Some("L"), gir |-> Some(FALSE), penalties |-> 0, wedge_and_in |-> Some(2)]
BlankHole ==    \* par unknown, score not entered, three putts, missed right
  [par |-> NULL, score |-> Some(0), putts |-> Some(3), fairway_hit |-> Some(FALSE),
   fairway_miss_dir |-> Some("R"), gir |-> NULL, penalties |-> 1, wedge_and_in |-> NULL]
BogeyHole ==    \* a bogey, fairway missed with no direction, no putt
  [par |-> Some(4), score |-> Some(5), putts |-> Some(0), fairway_hit |-> Some(FALSE),
   fairway_miss_dir |-> NULL, gir |-> Some(FALSE), penalties |-> 0, wedge_and_in |-> Some(1)]

HoleKinds == {ParHole, BirdieHole, EagleHole, BlankHole, BogeyHole}

\* Eighteen holes of two putts each.
EighteenTwoPutts == [i \in 1..18 |-> ParHole]

\* date_played of the i-th stored round: rounds are not logged in date order.
DateOf(i) == IF i % 2 = 1 THEN i + 1 ELSE i - 1

\* const totalScore = activeIndices.reduce((s, i) => s + (holeEntries[i]?.score || 0), 0)
TotalOf(hs) == SumSeq(Map(hs, LAMBDA h : IF TruthyNum(h.score) THEN The(h.score) ELSE 0))

RoundRow(i, r) ==
  [id |-> i, user_id |-> r.owner, date_played |-> DateOf(i), total_score |-> TotalOf(r.holes),
   is_complete |-> TRUE, visibility |-> r.vis]

HoleRows(i, r) ==
  Map([n \in 1..Len(r.holes) |-> n], LAMBDA n :
    [id |-> <<i, n>>, round_id |-> i, hole_number |-> n,
     par |-> r.holes[n].par, score |-> r.holes[n].score, putts |-> r.holes[n].putts,
     fairway_hit |-> r.holes[n].fairway_hit, fairway_miss_dir |-> r.holes[n].fairway_miss_dir,
     gir |-> r.holes[n].gir, penalties |-> r.holes[n].penalties,
     wedge_and_in |-> r.holes[n].wedge_and_in])

\* The tables after the rounds rs = <<[owner, vis, holes], ...>> were saved in turn.
RoundsTable(rs) == Map([i \in 1..Len(rs) |-> i], LAMBDA i : RoundRow(i, rs[i]))
HoleScoresTable(rs) == Flatten(Map([i \in 1..Len(rs) |-> i], LAMBDA i : HoleRows(i, rs[i])))

\* Rows of sb_relationships: follows (followUser writes them accepted), a
\* pending follow, and a playing-partner link (addRelationship).
RelCandidates ==
  {[user_id |-> "A", target_id |-> "B", type |-> "follow", status |-> "accepted"],
   [user_id |-> "B", target_id |-> "A", type |-> "follow", status |-> "accepted"],
   [user_id |-> "B", target_id |-> "A", type |-> "follow", status |-> "pending"],
   [user_id |-> "A", target_id |-> "B", type |-> "playing_partner", status |-> "accepted"]}

\* Rows of sb_shots.  Hole score <<1, 1>> is A's, <<2, 1>> is B's.
ShotKinds ==
  {[club |-> Some("7i"), distance_yards |-> Some(150), hole_score_id |-> <<1, 1>>],
   [club |-> Some("7i"), distance_yards |-> Some(160), hole_score_id |-> <<1, 1>>],
   [club |-> Some("Driver"), distance_yards |-> Some(0), hole_score_id |-> <<1, 1>>],
   [club |-> Some("7i"), distance_yards |-> Some(-5), hole_score_id |-> <<1, 1>>],
   [club |-> Some(""), distance_yards |-> Some(100), hole_score_id |-> <<1, 1>>],
   [club |-> NULL, distance_yards |-> NULL, hole_score_id |-> <<1, 1>>],
   [club |-> Some("PW"), distance_yards |-> Some(155), hole_score_id |-> <<1, 1>>],
   [club |-> Some("Driver"), distance_yards |-> Some(250), hole_score_id |-> <<2, 1>>]}

\* The screens before anything has loaded.
InitScreens ==
  /\ rounds = <<>> /\ roundsLegacy = <<>>
  /\ allRounds = <<>> /\ range = "all" /\ allScoresByRound = <<>>
  /\ clubs = <<>> /\ recentRounds = <<>> /\ wedgeTotalsByRound = <<>>
  /\ completed = {}
  /\ expandedId = NULL /\ holeScores = <<>> /\ loadingScores = FALSE
  /\ editing = FALSE /\ editScores = <<>> /\ pending = {} /\ saves = 0
  /\ selectedCourse = NULL /\ holes = <<>> /\ holeEntries = <<>>
  /\ holeSelection = "all" /\ selectedHoles = {}
  /\ trackWedgeAndIn = FALSE /\ trackingMode = "basic"
  /\ visibility = "private" /\ report = "none"

\* The bag of a new user, before any club is toggled.
InitBagIdle ==
  /\ bag = <<>> /\ bagShown = <<>> /\ bagStored = NULL /\ bagWrites = <<>>
  /\ toggled = NULL /\ toggles = 0

\* The hole details before any override is saved.
MetaKeys == {<<"c1", 1>>, <<"c1", 2>>, <<"c2", 1>>}
InitMetaIdle ==
  /\ overrides = {} /\ metaCalls = {} /\ metaLast = [k \in MetaKeys |-> "none"]

InitComponents == InitScreens /\ InitBagIdle /\ InitMetaIdle

InitCellIdle == cellScore = NULL /\ cellPar = NULL /\ cell = "unrendered"

(***************************************************************************)
(* Log: the round wizard up to saveRound (basic tracking mode, no tee set). *)
(***************************************************************************)
DefaultHoles == 18
NineHoles == 9

\* defaultShot(n): a shot of an advanced-mode hole, with its number and club
defaultShot(n) == [shot_number |-> n, club |-> ""]

\* initHoleEntries(numH)
initHoleEntries(numH) ==
  [i \in 1..numH |->
     [score |-> 0, putts |-> 0, fairway_hit |-> NULL, fairway_miss_dir |-> NULL,
      gir |-> FALSE, penalties |-> 0, wedge_and_in |-> NULL, shots |-> <<>>]]

\* selectCourse(course): the course's rows of sb_holes are loaded and one
\* blank entry per hole is made; numH = holes.length || course.num_holes || 18.
selectCourse(course) ==
  LET numH == IF Len(course.holes) # 0 THEN Len(course.holes)
              ELSE IF TruthyNum(course.num_holes) THEN The(course.num_holes)
              ELSE DefaultHoles
  IN /\ Len(sb_rounds) < MaxLogSaves
     /\ selectedCourse' = Some(course.id)
     /\ holes' = course.holes
     /\ holeEntries' = initHoleEntries(numH)
     /\ holeSelection' = "all"
     /\ selectedHoles' = 1..numH
     /\ UNCHANGED <<user, bagVars, metaVars, dbVars, feedVars, statsVars, cellVars, completed, editVars,
                    trackWedgeAndIn, trackingMode, visibility, report>>

\* activeHoleNumbers, in ascending order
activeHoleNumbers ==
  CASE holeSelection = "all" ->
         [i \in 1..(IF Len(holes) # 0 THEN Len(holes) ELSE DefaultHoles) |-> i]
    [] holeSelection = "front9" -> [i \in 1..NineHoles |-> i]
    [] holeSelection = "back9" -> [i \in 1..NineHoles |-> i + NineHoles]
    [] holeSelection = "custom" ->
         StableSort(Map([i \in 1..Cardinality(selectedHoles) |-> i], LAMBDA i :
                      CHOOSE n \in selectedHoles :
                        Cardinality({k \in selectedHoles : k < n}) = i - 1),
                    LAMBDA a, b : a < b)

\* handleHoleSelectionChange(mode)
handleHoleSelectionChange(mode) ==
  LET numH == IF Len(holeEntries) # 0 THEN Len(holeEntries) ELSE DefaultHoles
      Min(a, b) == IF a < b THEN a ELSE b
  IN /\ selectedCourse # NULL
     /\ Len(sb_rounds) < MaxLogSaves
     /\ holeSelection' = mode
     /\ selectedHoles' =
          CASE mode = "all" -> 1..numH
            [] mode = "front9" -> 1..Min(NineHoles, numH)
            [] mode = "back9" -> (NineHoles + 1)..(NineHoles + Min(NineHoles, numH - NineHoles))
            [] mode = "custom" -> selectedHoles
     /\ UNCHANGED <<user, bagVars, metaVars, dbVars, feedVars, statsVars, cellVars, completed, editVars,
                    selectedCourse, holes, holeEntries, trackWedgeAndIn, trackingMode, visibility, report>>

\* toggleCustomHole(holeNum), from the grid shown in custom mode
toggleCustomHole(holeNum) ==
  /\ selectedCourse # NULL
  /\ Len(sb_rounds) < MaxLogSaves
  /\ holeSelection = "custom"
  /\ holeNum \in 1..(IF Len(holes) # 0 THEN Len(holes) ELSE DefaultHoles)
  /\ selectedHoles' = IF holeNum \in selectedHoles THEN selectedHoles \ {holeNum}
                      ELSE selectedHoles \cup {holeNum}
  /\ UNCHANGED <<user, bagVars, metaVars, dbVars, feedVars, statsVars, cellVars, completed, editVars,
                 selectedCourse, holes, holeEntries, holeSelection, trackWedgeAndIn,
                 trackingMode, visibility, report>>

\* The shots of a hole after its score became newScore in advanced mode:
\* default shots are pushed up to the score, or the list is cut to it.
SyncedShots(shots, newScore) ==
  [n \in 1..newScore |-> IF n <= Len(shots) THEN shots[n] ELSE defaultShot(n)]

\* updateHoleEntry(idx, field, value) (idx counts from 1 here)
updateHoleEntry(idx, field, value) ==
  LET e == holeEntries[idx]
      updated == [e EXCEPT ![field] = value]
      cleared == IF field = "fairway_hit" /\ value # Some(FALSE)
                 THEN [updated EXCEPT !.fairway_miss_dir = NULL] ELSE updated
      synced == IF field = "score" /\ trackingMode = "advanced"
                THEN [cleared EXCEPT !.shots = SyncedShots(e.shots, value)] ELSE cleared
  IN /\ Len(sb_rounds) < MaxLogSaves
     /\ idx \in 1..Len(holeEntries)
     /\ holeEntries' = [holeEntries EXCEPT ![idx] = synced]
     /\ UNCHANGED <<user, bagVars, metaVars, dbVars, feedVars, statsVars, cellVars, completed, editVars,
                    selectedCourse, holes, holeSelection, selectedHoles, trackWedgeAndIn,
                    trackingMode, visibility, report>>

\* updateShot(holeIdx, shotIdx, 'club', value), from a shot rendered in advanced mode
updateShot(holeIdx, shotIdx, value) ==
  /\ Len(sb_rounds) < MaxLogSaves
  /\ trackingMode = "advanced"
  /\ holeIdx \in 1..Len(holeEntries)
  /\ shotIdx \in 1..Len(holeEntries[holeIdx].shots)
  /\ holeEntries' = [holeEntries EXCEPT ![holeIdx].shots[shotIdx].club = value]
  /\ UNCHANGED <<user, bagVars, metaVars, dbVars, feedVars, statsVars, cellVars, completed, editVars,
                 selectedCourse, holes, holeSelection, selectedHoles, trackWedgeAndIn,
                 trackingMode, visibility, report>>

\* The tracking-mode cards and the wedge & in toggle of the round details.
setTrackingMode(mode) ==
  /\ selectedCourse # NULL
  /\ Len(sb_rounds) < MaxLogSaves
  /\ trackingMode' = mode
  /\ UNCHANGED <<user, bagVars, metaVars, dbVars, feedVars, statsVars, cellVars, completed, editVars,
                 selectedCourse, holes, holeEntries, holeSelection, selectedHoles,
                 trackWedgeAndIn, visibility, report>>

setTrackWedgeAndIn(on) ==
  /\ selectedCourse # NULL
  /\ Len(sb_rounds) < MaxLogSaves
  /\ trackWedgeAndIn' = on
  /\ UNCHANGED <<user, bagVars, metaVars, dbVars, feedVars, statsVars, cellVars, completed, editVars,
                 selectedCourse, holes, holeEntries, holeSelection, selectedHoles,
                 trackingMode, visibility, report>>

\* The hole shown by the hole-by-hole screen: activeIndices[safePos] ?? 0.
actualHoleIdx ==
  IF Len(activeHoleNumbers) = 0 THEN {1} ELSE Range(activeHoleNumbers)

\* The values the - and + buttons of a counter showing v pass on.
CounterTaps(v) == {v + 1} \cup (IF v > 0 THEN {v - 1} ELSE {})

\* What the controls of the hole-by-hole screen pass to updateHoleEntry for
\* the entry e, as <<field, value>>.
EntryTaps(e) ==
  {<<"score", v>> : v \in CounterTaps(e.score) \cap 0..MaxEntryScore}
  \cup {<<"putts", v>> : v \in CounterTaps(e.putts) \cap 0..MaxEntryCount}
  \cup {<<"penalties", v>> : v \in CounterTaps(e.penalties) \cap 0..MaxEntryCount}
  \cup (IF trackWedgeAndIn
        THEN LET w == IF TruthyNum(e.wedge_and_in) THEN The(e.wedge_and_in) ELSE 0
             IN {<<"wedge_and_in", Some(v)>> : v \in CounterTaps(w) \cap 0..MaxEntryCount}
        ELSE {})
  \cup {<<"fairway_hit", v>> : v \in {Some(TRUE), Some(FALSE), NULL}}
  \cup (IF e.fairway_hit = Some(FALSE)
        THEN {<<"fairway_miss_dir", IF e.fairway_miss_dir = Some(d) THEN NULL ELSE Some(d)>> :
                d \in {"L", "R"}}
        ELSE {})
  \cup {<<"gir", v>> : v \in BOOLEAN}

\* handleScanScorecard once the scan has answered with result: the matched
\* course (if any) is selected, then the entries are made from result.holes.
handleScanScorecard(result) ==
  LET course == The(result.course)
      numC == IF Len(course.holes) # 0 THEN Len(course.holes)
              ELSE IF TruthyNum(course.num_holes) THEN The(course.num_holes)
              ELSE DefaultHoles
      numH == IF Len(result.holes) # 0 THEN Len(result.holes) ELSE DefaultHoles
      entries == [i \in 1..numH |->
                    IF i <= Len(result.holes)
                    THEN LET h == result.holes[i] IN
                         [initHoleEntries(numH)[i] EXCEPT
                            !.score = IF TruthyNum(h.score) THEN The(h.score) ELSE 0,
                            !.putts = IF TruthyNum(h.putts) THEN The(h.putts) ELSE 0,
                            !.fairway_hit = h.fairway_hit,
                            !.gir = TruthyBool(h.gir),
                            !.wedge_and_in = h.wedge_and_in]
                    ELSE initHoleEntries(numH)[i]]
  IN /\ Len(sb_rounds) < MaxLogSaves
     /\ IF result.course # NULL
        THEN /\ selectedCourse' = Some(course.id)
             /\ holes' = course.holes
             /\ holeSelection' = "all"
             /\ selectedHoles' = 1..numC
        ELSE UNCHANGED <<selectedCourse, holes, holeSelection, selectedHoles>>
     /\ holeEntries' = entries
     /\ trackWedgeAndIn' =
          IF \E i \in 1..Len(result.holes) : result.holes[i].wedge_and_in # NULL
          THEN TRUE ELSE trackWedgeAndIn
     /\ UNCHANGED <<user, bagVars, metaVars, dbVars, feedVars, statsVars, cellVars, completed, editVars,
                    trackingMode, visibility, report>>

\* const totalScore = activeIndices.reduce((s, i) => s + (holeEntries[i]?.score || 0), 0)
totalScore ==
  SumSeq(Map(activeHoleNumbers, LAMBDA n :
    IF n \in 1..Len(holeEntries) THEN holeEntries[n].score ELSE 0))

\* The row saveRound inserts into sb_rounds.
RoundInsert(id) ==
  [id |-> id, user_id |-> user, date_played |-> DateOf(id), total_score |-> totalScore,
   is_complete |-> TRUE, visibility |-> visibility]

\* A variant of scoreInserts that stores wedge & in whether tracked or not.
scoreInsertsWedgeKept(roundId) ==
  Map(activeHoleNumbers, LAMBDA n :
    LET e == holeEntries[n] IN
    [id |-> <<roundId, n>>, round_id |-> roundId, hole_number |-> n,
     par |-> IF n \in 1..Len(holes) /\ holes[n] # 0 THEN Some(holes[n]) ELSE NULL,
     score |-> Some(e.score), putts |-> Some(e.putts), fairway_hit |-> e.fairway_hit,
     fairway_miss_dir |-> IF e.fairway_hit = Some(FALSE) THEN e.fairway_miss_dir ELSE NULL,
     gir |-> Some(e.gir), penalties |-> e.penalties,
     wedge_and_in |-> e.wedge_and_in])

\* scoreInserts: one row per active hole
scoreInserts(roundId) ==
  Map(activeHoleNumbers, LAMBDA n :
    LET e == holeEntries[n] IN
    [id |-> <<roundId, n>>, round_id |-> roundId, hole_number |-> n,
     par |-> IF n \in 1..Len(holes) /\ holes[n] # 0 THEN Some(holes[n]) ELSE NULL,
     score |-> Some(e.score), putts |-> Some(e.putts), fairway_hit |-> e.fairway_hit,
     fairway_miss_dir |-> IF e.fairway_hit = Some(FALSE) THEN e.fairway_miss_dir ELSE NULL,
     gir |-> Some(e.gir), penalties |-> e.penalties,
     wedge_and_in |-> IF trackWedgeAndIn THEN e.wedge_and_in ELSE NULL])

\* The wizard after a saved round: setStep(1); setSelectedCourse(null); ...
WizardReset ==
  /\ selectedCourse' = NULL /\ holes' = <<>> /\ holeEntries' = <<>>
  /\ holeSelection' = "all" /\ selectedHoles' = 1..DefaultHoles
  /\ trackWedgeAndIn' = FALSE

\* saveRound.  roundOk and scoresOk are whether the two inserts succeed: a
\* failed insert is returned as { error }, not thrown.  Only the round
\* insert's error is looked at; reading an active hole that has no entry
\* throws while the hole rows are being built, after the round is stored.
saveRound(roundOk, scoresOk) ==
  LET newId == Len(sb_rounds) + 1 IN
  /\ selectedCourse # NULL
  /\ Len(sb_rounds) < MaxLogSaves
  /\ IF ~roundOk
     THEN /\ report' = "error"
          /\ UNCHANGED <<sb_rounds, sb_hole_scores, selectedCourse, holes, holeEntries,
                         holeSelection, selectedHoles, trackWedgeAndIn>>
     ELSE /\ sb_rounds' = Append(sb_rounds, RoundInsert(newId))
          /\ IF \E n \in Range(activeHoleNumbers) : n \notin 1..Len(holeEntries)
             THEN /\ report' = "error"
                  /\ UNCHANGED <<sb_hole_scores, selectedCourse, holes, holeEntries,
                                 holeSelection, selectedHoles, trackWedgeAndIn>>
             ELSE /\ sb_hole_scores' = IF scoresOk THEN sb_hole_scores \o scoreInserts(newId)
                                       ELSE sb_hole_scores
                  /\ report' = "success"
                  /\ WizardReset
  /\ UNCHANGED <<user, bagVars, metaVars, sb_relationships, sb_shots, feedVars, statsVars, cellVars, completed,
                 editVars, trackingMode, visibility>>

(***************************************************************************)
(* Profile: the club bag.                                                  *)
(***************************************************************************)
MAX_BAG == 14

\* loadBag, run once when the profile mounts: the stored bag, if any, is set.
loadBag ==
  /\ "loadBag" \notin completed
  /\ completed' = completed \cup {"loadBag"}
  /\ bag' = IF bagStored # NULL THEN The(bagStored) ELSE bag
  /\ UNCHANGED <<user, dbVars, feedVars, statsVars, cellVars, editVars, logVars,
                 bagShown, bagStored, bagWrites, toggled, toggles, metaVars>>

\* saveBag(newBag): setBag, then setItem under the user's bag key.
saveBag(newBag) ==
  /\ bag' = newBag
  /\ bagWrites' = Append(bagWrites, newBag)

\* toggleClub(club).  The handler reads the bag of the render it was made in.
toggleClub(club) ==
  /\ toggles < MaxToggles
  /\ toggles' = toggles + 1
  /\ toggled' = Some(club)
  /\ IF club \in Range(bagShown)
     THEN saveBag(SelectSeq(bagShown, LAMBDA c : c # club))
     ELSE IF Len(bagShown) < MAX_BAG
     THEN saveBag(Append(bagShown, club))
     ELSE UNCHANGED <<bag, bagWrites>>
  /\ UNCHANGED <<user, dbVars, feedVars, statsVars, cellVars, completed, editVars, logVars,
                 bagShown, bagStored, metaVars>>

\* The component renders again with the bag that was set.
renderBag ==
  /\ bagShown # bag
  /\ bagShown' = bag
  /\ UNCHANGED <<user, dbVars, feedVars, statsVars, cellVars, completed, editVars, logVars,
                 bag, bagStored, bagWrites, toggled, toggles, metaVars>>

\* AsyncStorage carries out the oldest setItem of saveBag.
setItemBag ==
  /\ bagWrites # <<>>
  /\ bagStored' = Some(Head(bagWrites))
  /\ bagWrites' = Tail(bagWrites)
  /\ UNCHANGED <<user, dbVars, feedVars, statsVars, cellVars, completed, editVars, logVars,
                 bag, bagShown, toggled, toggles, metaVars>>

(***************************************************************************)
(* holeMetadata: per-hole overrides of the course guide kept in one item.   *)
(***************************************************************************)
\* defaultData[courseId][String(i)] of hole-metadata.json, or null
DefaultData(courseId, i) ==
  IF courseId = "c1" /\ i = 1 THEN Some("dogleg_right") ELSE NULL

\* ov[courseId][String(i)], or null
OverrideOf(ov, courseId, i) ==
  {o.detail : o \in {x \in ov : x.courseId = courseId /\ x.holeNumber = i}}

\* getHoleDetails(courseId): holes 1..18, each from the override, else the
\* course default, else straight with no hazards.
getHoleDetails(courseId) ==
  [i \in 1..18 |->
     IF OverrideOf(overrides, courseId, i) # NULL
     THEN [detail |-> The(OverrideOf(overrides, courseId, i)), user_modified |-> TRUE]
     ELSE IF DefaultData(courseId, i) # NULL
     THEN [detail |-> The(DefaultData(courseId, i)), user_modified |-> FALSE]
     ELSE [detail |-> "straight", user_modified |-> FALSE]]

\* saveHoleDetail / resetHoleDetail up to the end of `await getOverrides()`:
\* the call holds the overrides it has read.
metaCall(op, courseId, holeNumber, detail) ==
  /\ Cardinality(metaCalls) < MaxMetaCalls
  /\ metaCalls' = metaCalls \cup
       {[op |-> op, courseId |-> courseId, holeNumber |-> holeNumber, detail |-> detail,
         read |-> overrides]}
  /\ UNCHANGED <<user, dbVars, feedVars, statsVars, cellVars, completed, editVars, logVars,
                 bagVars, overrides, metaLast>>

\* The rest of the call: the overrides it read are changed for its hole and
\* written back whole (a reset writes only if the course had overrides).
metaResume(call) ==
  LET others == {o \in call.read :
                   ~(o.courseId = call.courseId /\ o.holeNumber = call.holeNumber)}
  IN /\ call \in metaCalls
     /\ metaCalls' = metaCalls \ {call}
     /\ overrides' =
          IF call.op = "save"
          THEN others \cup {[courseId |-> call.courseId, holeNumber |-> call.holeNumber,
                             detail |-> call.detail]}
          ELSE IF \E o \in call.read : o.courseId = call.courseId
          THEN others
          ELSE overrides
     /\ metaLast' = [metaLast EXCEPT ![<<call.courseId, call.holeNumber>>] =
                       IF call.op = "save" THEN call.detail ELSE "reset"]
     /\ UNCHANGED <<user, dbVars, feedVars, statsVars, cellVars, completed, editVars, logVars,
                    bagVars>>

(***************************************************************************)
(* ScoreCell: the branch chosen for a hole score against par.              *)
(***************************************************************************)
\* A variant of ScoreCell whose first branch is diff <= -1.
ScoreCellEagleAtMinusOne(score, par) ==
  IF ~TruthyNum(score) \/ ~TruthyNum(par) THEN "Unknown"
  ELSE LET diff == The(score) - The(par) IN
       IF diff <= -1 THEN "EagleOrBetter"
       ELSE IF diff = 0 THEN "Par"
       ELSE IF diff = 1 THEN "Bogey"
       ELSE IF diff = 2 THEN "DoubleBogey"
       ELSE "TripleOrWorse"

\* if (!score || !par) return the dash; then the branches on diff = score - par.
ScoreCell(score, par) ==
  IF ~TruthyNum(score) \/ ~TruthyNum(par) THEN "Unknown"
  ELSE LET diff == The(score) - The(par) IN
       IF diff <= -2 THEN "EagleOrBetter"
       ELSE IF diff = -1 THEN "Birdie"
       ELSE IF diff = 0 THEN "Par"
       ELSE IF diff = 1 THEN "Bogey"
       ELSE IF diff = 2 THEN "DoubleBogey"
       ELSE "TripleOrWorse"

Categories == {"EagleOrBetter", "Birdie", "Par", "Bogey", "DoubleBogey", "TripleOrWorse"}

RenderScoreCell ==
  /\ cell' = ScoreCell(cellScore, cellPar)
  /\ UNCHANGED <<cellScore, cellPar, user, bagVars, metaVars, dbVars, feedVars, statsVars, completed,
                 editVars, logVars>>

(***************************************************************************)
(* Specifications.                                                         *)
(***************************************************************************)
\* ScoreCell over every pair of props.
InitCell ==
  /\ cellScore \in {NULL} \cup {Some(n) : n \in (0 - NegCell)..MaxCellScore}
  /\ cellPar \in {NULL} \cup {Some(n) : n \in (0 - NegCell)..MaxCellPar}
  /\ cell = "unrendered"
  /\ user = "A"
  /\ sb_rounds = <<>> /\ sb_hole_scores = <<>> /\ sb_relationships = {} /\ sb_shots = <<>>
  /\ InitComponents

NextCell == RenderScoreCell

SpecCell == InitCell /\ [][NextCell]_vars

\* The feed of either user over rounds of every owner and visibility and every
\* set of relationships.
FeedRoundSpecs == [owner : Users, vis : Visibilities, holes : {<<ParHole, BirdieHole, EagleHole>>}]

InitFeed ==
  /\ user \in Users
  /\ \E rs \in SeqsUpTo(FeedRoundSpecs, MaxFeedRounds) :
       /\ sb_rounds = RoundsTable(rs)
       /\ sb_hole_scores = HoleScoresTable(rs)
  /\ sb_relationships \in SUBSET RelCandidates
  /\ sb_shots = <<>>
  /\ InitComponents
  /\ InitCellIdle

NextFeed == loadFeed \/ loadFeedLegacy

SpecFeed == InitFeed /\ [][NextFeed]_vars

\* The feed summary and the statistics screen of user A over
\*  (1) no round, or one round of A with every short list of holes, or the
\*      eighteen two-putt holes;
\*  (2) up to MaxRounds rounds of A and B, and twelve rounds of A;
\*  (3) one round each for A and B and every short list of shots.
SummaryRoundSpecs ==
  [owner : {"A"}, vis : {"private"}, holes : SeqsUpTo(HoleKinds, MaxHoles) \cup {EighteenTwoPutts}]

WindowHoleLists == <<(<<ParHole, EagleHole>>), (<<BlankHole, BogeyHole, BirdieHole>>)>>

WindowRoundSpecs == [owner : Users, vis : {"private"}, holes : Range(WindowHoleLists)]

TwelveRounds == [i \in 1..12 |-> [owner |-> "A", vis |-> "private", holes |-> WindowHoleLists[(i % 2) + 1]]]

ClubsRounds ==
  <<[owner |-> "A", vis |-> "private", holes |-> <<ParHole>>],
    [owner |-> "B", vis |-> "private", holes |-> <<ParHole>>]>>

InitStats ==
  /\ user = "A"
  /\ \E rs \in SeqsUpTo(SummaryRoundSpecs, 1) \cup SeqsUpTo(WindowRoundSpecs, MaxRounds)
                 \cup {TwelveRounds, ClubsRounds} :
       /\ sb_rounds = RoundsTable(rs)
       /\ sb_hole_scores = HoleScoresTable(rs)
       /\ sb_shots \in (IF rs = ClubsRounds THEN SeqsUpTo(ShotKinds, MaxShots) ELSE {<<>>})
  /\ sb_relationships = {}
  /\ InitComponents
  /\ InitCellIdle

NextStats == loadFeed \/ loadStats \/ \E opt \in RangeOptions : setRange(opt)

SpecStats == InitStats /\ [][NextStats]_vars

\* The feed of user A, who follows B, over up to MaxEditRounds rounds of A and
\* B with a shot on the first hole of each; A expands, edits and deletes.
EditRoundSpecs ==
  [owner : Users, vis : {"public"}, holes : {<<ParHole>>, <<BirdieHole, BogeyHole>>}]

EditShots(rs) ==
  Map([i \in 1..Len(rs) |-> i], LAMBDA i :
    [club |-> Some("7i"), distance_yards |-> Some(150), hole_score_id |-> <<i, 1>>])

\* What is typed into a score input, and the fields that are edited.
EditValues == {0, 6}
EditFields == {"score"}

InitEdit ==
  /\ user = "A"
  /\ \E rs \in SeqsUpTo(EditRoundSpecs, MaxEditRounds) :
       /\ sb_rounds = RoundsTable(rs)
       /\ sb_hole_scores = HoleScoresTable(rs)
       /\ sb_shots = EditShots(rs)
  /\ sb_relationships = {[user_id |-> "A", target_id |-> "B", type |-> "follow", status |-> "accepted"]}
  /\ InitComponents
  /\ InitCellIdle

NextEdit ==
  \/ loadFeed
  \/ \E roundId \in 1..MaxEditRounds : toggleExpand(roundId)
  \/ \E roundId \in 1..MaxEditRounds : toggleExpandResume(roundId)
  \/ startEdit
  \/ cancelEdit
  \/ \E idx \in 1..MaxHoles, field \in EditFields, value \in EditValues :
       updateEditScore(idx, field, value)
  \/ \E roundId \in 1..MaxEditRounds : saveEdits(roundId)
  \/ \E roundId \in 1..MaxEditRounds : deleteRound(roundId)

SpecEdit == InitEdit /\ [][NextEdit]_vars

\* The same feed where rounds are opened, saved as they were loaded and
\* deleted, with no score retyped in between.
NextDelete ==
  \/ loadFeed
  \/ \E roundId \in 1..MaxEditRounds : toggleExpand(roundId)
  \/ \E roundId \in 1..MaxEditRounds : toggleExpandResume(roundId)
  \/ startEdit
  \/ cancelEdit
  \/ \E roundId \in 1..MaxEditRounds : saveEdits(roundId)
  \/ \E roundId \in 1..MaxEditRounds : deleteRound(roundId)

SpecDelete == InitEdit /\ [][NextDelete]_vars

\* The feed of user A over one round of one hole, whose scorecard A edits in
\* every field: texts typed into score and putts, fairway and green toggled.
ScorecardHoles == {<<EagleHole>>, <<BirdieHole>>}
TypedTexts == {"", "5", "-1"}

InitScorecard ==
  /\ user = "A"
  /\ \E hs \in ScorecardHoles :
       LET rs == <<[owner |-> "A", vis |-> "public", holes |-> hs]>>
       IN /\ sb_rounds = RoundsTable(rs)
          /\ sb_hole_scores = HoleScoresTable(rs)
  /\ sb_shots = <<>> /\ sb_relationships = {}
  /\ InitComponents
  /\ InitCellIdle

NextScorecard ==
  \/ loadFeed
  \/ toggleExpand(1)
  \/ toggleExpandResume(1)
  \/ startEdit
  \/ cancelEdit
  \/ \E field \in {"score", "putts"}, v \in TypedTexts :
       updateEditScore(1, field, ParseIntOrZero(v))
  \/ \E field \in {"fairway_hit", "gir"} : updateEditScore(1, field, 0)
  \/ saveEdits(1)

SpecScorecard == InitScorecard /\ [][NextScorecard]_vars

\* The round wizard of user A over a course with two hole rows, a nine-hole
\* course without hole rows, and a course with neither hole rows nor num_holes.
Courses ==
  {[id |-> "c2", holes |-> <<4, 3>>, num_holes |-> Some(2)],
   [id |-> "c9", holes |-> <<>>, num_holes |-> Some(9)],
   [id |-> "c18", holes |-> <<>>, num_holes |-> NULL]}

HoleSelections == {"all", "front9", "back9", "custom"}

\* Scan results: the holes read off the card (a bogey with its details, and a
\* hole whose score was written relative to par) and the course matched, if any.
ScannedBogey ==
  [score |-> Some(5), putts |-> Some(2), fairway_hit |-> Some(FALSE), gir |-> NULL,
   wedge_and_in |-> Some(1)]
ScannedUnderPar ==
  [score |-> Some(-1), putts |-> NULL, fairway_hit |-> NULL, gir |-> Some(TRUE),
   wedge_and_in |-> NULL]
ScanResults ==
  [course : {NULL} \cup {Some(c) : c \in Courses},
   holes : {<<>>, <<ScannedBogey>>, <<ScannedBogey, ScannedUnderPar>>}]
ScoreTaps(e) == {t \in EntryTaps(e) : t[1] = "score"}

InitLog ==
  /\ user = "A"
  /\ sb_rounds = <<>> /\ sb_hole_scores = <<>> /\ sb_relationships = {} /\ sb_shots = <<>>
  /\ InitComponents
  /\ InitCellIdle

NextLog ==
  \/ \E course \in Courses : selectCourse(course)
  \/ \E mode \in HoleSelections : handleHoleSelectionChange(mode)
  \/ \E holeNum \in 1..MaxHoles : toggleCustomHole(holeNum)
  \/ \E idx \in actualHoleIdx \cap 1..MaxHoles :
       /\ idx \in 1..Len(holeEntries)
       /\ \E t \in ScoreTaps(holeEntries[idx]) : updateHoleEntry(idx, t[1], t[2])
  \/ \E roundOk \in BOOLEAN, scoresOk \in BOOLEAN : saveRound(roundOk, scoresOk)
  \/ \E result \in ScanResults : handleScanScorecard(result)

SpecLog == InitLog /\ [][NextLog]_vars

\* The wizard over the two-hole course with wedge & in switched on and off,
\* counted on the holes, read from a scanned card, and the round saved.
NextWedge ==
  \/ \E course \in {c \in Courses : c.id = "c2"} : selectCourse(course)
  \/ \E on \in BOOLEAN : setTrackWedgeAndIn(on)
  \/ \E idx \in actualHoleIdx \cap 1..MaxHoles :
       /\ idx \in 1..Len(holeEntries)
       /\ \E t \in {u \in EntryTaps(holeEntries[idx]) : u[1] = "wedge_and_in"} :
            updateHoleEntry(idx, t[1], t[2])
  \/ \E result \in {r \in ScanResults : r.course = NULL \/ The(r.course).id = "c2"} :
       handleScanScorecard(result)
  \/ \E roundOk \in BOOLEAN, scoresOk \in BOOLEAN : saveRound(roundOk, scoresOk)

SpecWedge == InitLog /\ [][NextWedge]_vars

\* The wizard over the two-hole course with the tracking mode chosen before
\* or after scores are entered or scanned, and clubs given to the shots.
TrackingModes == {"basic", "advanced"}

NextShots ==
  \/ \E course \in {c \in Courses : c.id = "c2"} : selectCourse(course)
  \/ \E mode \in TrackingModes : setTrackingMode(mode)
  \/ \E idx \in actualHoleIdx \cap 1..MaxHoles :
       /\ idx \in 1..Len(holeEntries)
       /\ \E t \in ScoreTaps(holeEntries[idx]) : updateHoleEntry(idx, t[1], t[2])
  \/ \E holeIdx \in actualHoleIdx \cap 1..MaxHoles, shotIdx \in 1..MaxEntryScore :
       updateShot(holeIdx, shotIdx, "7i")
  \/ \E result \in {r \in ScanResults : r.course = NULL} : handleScanScorecard(result)

SpecShots == InitLog /\ [][NextShots]_vars

\* The profile of user A, who has no stored bag or one of thirteen clubs; a
\* club of that bag and two others are toggled.
ThirteenClubs ==
  <<"Driver", "2W", "3W", "4W", "5W", "7W", "9W", "11W", "2H", "3H", "4H", "5H", "6H">>
ToggledClubs == {"6H", "PW", "Putter"}

InitBag ==
  /\ user = "A"
  /\ sb_rounds = <<>> /\ sb_hole_scores = <<>> /\ sb_relationships = {} /\ sb_shots = <<>>
  /\ InitScreens /\ InitMetaIdle /\ InitCellIdle
  /\ bag = <<>> /\ bagShown = <<>>
  /\ bagStored \in {NULL, Some(ThirteenClubs)}
  /\ bagWrites = <<>> /\ toggled = NULL /\ toggles = 0

NextBag ==
  \/ loadBag
  \/ \E club \in ToggledClubs : toggleClub(club)
  \/ renderBag
  \/ setItemBag

SpecBag == InitBag /\ [][NextBag]_vars

\* The course guide: details saved and reset for holes of two courses.
InitMeta ==
  /\ user = "A"
  /\ sb_rounds = <<>> /\ sb_hole_scores = <<>> /\ sb_relationships = {} /\ sb_shots = <<>>
  /\ InitComponents /\ InitCellIdle

NextMeta ==
  \/ \E k \in MetaKeys : metaCall("save", k[1], k[2], "dogleg_left")
  \/ \E k \in MetaKeys : metaCall("reset", k[1], k[2], "")
  \/ \E call \in metaCalls : metaResume(call)

SpecMeta == InitMeta /\ [][NextMeta]_vars

(***************************************************************************)
(* Properties.                                                             *)
(***************************************************************************)
FeedLoaded == "loadFeed" \in completed
StatsLoaded == "loadStats" \in completed

\* The rows of a table, as a set.
RoundRows == Range(sb_rounds)
HoleRowsOf(rid) == {h \in Range(sb_hole_scores) : h.round_id = rid}
FeedIds == {rounds[i].id : i \in 1..Len(rounds)}

\* The viewer follows the owner with an accepted relationship.
Follows(viewer, owner) ==
  \E q \in sb_relationships :
    q.user_id = viewer /\ q.target_id = owner /\ q.type = "follow" /\ q.status = "accepted"

\* The visibility rule as stated: own, or public, or partners and followed.
VisibleTo(r, viewer) ==
  \/ r.user_id = viewer
  \/ r.visibility = "public"
  \/ r.visibility = "partners" /\ Follows(viewer, r.user_id)

\* C1: once the feed has loaded, a round is in the feed exactly when it belongs
\* to the viewer, or is public, or is partners-visible and the viewer follows its
\* owner with an accepted relationship; another player's private round is never
\* in the feed and a public round is in every viewer's feed.
C1_FeedShowsExactlyVisibleRounds ==
  FeedLoaded => \A r \in RoundRows : (r.id \in FeedIds) <=> VisibleTo(r, user)

\* The valid props of ScoreCell and the difference they give.
CellValid == cellScore # NULL /\ cellPar # NULL /\ The(cellScore) > 0 /\ The(cellPar) > 0
CellDiff == The(cellScore) - The(cellPar)

\* C2: for a valid score and par the rendered category is EagleOrBetter when
\* score - par <= -2, Birdie at -1, Par at 0, Bogey at 1, DoubleBogey at 2 and
\* TripleOrWorse at 3 or more.
C2_CategoryByDiff ==
  (cell # "unrendered" /\ CellValid) =>
    /\ (CellDiff <= -2) <=> (cell = "EagleOrBetter")
    /\ (CellDiff = -1) <=> (cell = "Birdie")
    /\ (CellDiff = 0) <=> (cell = "Par")
    /\ (CellDiff = 1) <=> (cell = "Bogey")
    /\ (CellDiff = 2) <=> (cell = "DoubleBogey")
    /\ (CellDiff >= 3) <=> (cell = "TripleOrWorse")

\* C2, its case: a valid score one under par has been rendered as a birdie.
C2_Witness == cell = "Birdie" /\ CellValid /\ CellDiff = -1

\* C3: whenever score <= 0 or par <= 0 or either is absent, the cell renders
\* the plain dash (Unknown) and no scoring category.
C3_InvalidIsUnknown ==
  (cell # "unrendered" /\ ~CellValid) => cell = "Unknown"

\* The sum of the second components of a set of <<key, number>> pairs.
RECURSIVE PairSum(_)
PairSum(P) == IF P = {} THEN 0 ELSE LET p == CHOOSE q \in P : TRUE IN p[2] + PairSum(P \ {p})

PuttSum(hs) == PairSum({<<h.id, The(h.putts)>> : h \in {g \in hs : g.putts # NULL}})

\* The player's completed rounds and, by date, the ones the range selects.
OwnRounds == {r \in RoundRows : r.user_id = user /\ r.is_complete}
WindowN == CASE range = "3" -> 3 [] range = "5" -> 5 [] range = "10" -> 10 [] range = "25" -> 25
NewerThan(r) == Cardinality({q \in OwnRounds : q.date_played > r.date_played})
SelectedRounds == IF range = "all" THEN OwnRounds ELSE {r \in OwnRounds : NewerThan(r) < WindowN}
SelectedHoles == {h \in Range(sb_hole_scores) : \E r \in SelectedRounds : h.round_id = r.id}

FairwayKnown(hs) == {h \in hs : h.fairway_hit # NULL}
FairwayHit(hs) == {h \in hs : h.fairway_hit = Some(TRUE)}
GirKnown(hs) == {h \in hs : h.gir # NULL}
PuttKnown(hs) == {h \in hs : h.putts # NULL}
MissKnown(hs) == {h \in hs : h.fairway_hit = Some(FALSE) /\ h.fairway_miss_dir \notin {NULL, Some("")}}
WedgeKnown(hs) == {h \in hs : h.wedge_and_in # NULL}

\* C4: a percentage over an empty subset is no data, never 0%: in the feed the
\* field is null, on the statistics screen the card shows no number.
C4_EmptySubsetIsNoData ==
  /\ FeedLoaded => \A i \in 1..Len(rounds) :
       /\ FairwayKnown(HoleRowsOf(rounds[i].id)) = {} => rounds[i].fairway_pct = NULL
       /\ GirKnown(HoleRowsOf(rounds[i].id)) = {} => rounds[i].gir_pct = NULL
  /\ (StatsLoaded /\ StatsShown) =>
       /\ FairwayKnown(SelectedHoles) = {} => FairwaysCard = Dash
       /\ GirKnown(SelectedHoles) = {} => GirCard = Dash
       /\ MissKnown(SelectedHoles) = {} => ~MissCardsShown

\* C5: fairwayPct is round(100 * hit / known) over the holes whose fairwayHit
\* is not null, in the feed entry of a round and on the statistics screen; a
\* null fairwayHit is not in the denominator.
C5_FairwayPctOverKnown ==
  /\ FeedLoaded => \A i \in 1..Len(rounds) :
       LET hs == HoleRowsOf(rounds[i].id) IN
       FairwayKnown(hs) # {} =>
         rounds[i].fairway_pct =
           Some(MathRound(100 * Cardinality(FairwayHit(hs)), Cardinality(FairwayKnown(hs))))
  /\ (StatsLoaded /\ FairwayKnown(SelectedHoles) # {}) =>
       fwPct = MathRound(100 * Cardinality(FairwayHit(SelectedHoles)),
                         Cardinality(FairwayKnown(SelectedHoles)))

\* C5, its case: the holes [true, null, false] give 50 in the feed.
C5_Witness ==
  /\ FeedLoaded /\ Len(rounds) = 1 /\ Len(sb_hole_scores) = 3
  /\ Map(sb_hole_scores, LAMBDA h : h.fairway_hit) = <<Some(TRUE), NULL, Some(FALSE)>>
  /\ rounds[1].fairway_pct = Some(50)

\* The tables hold one round of eighteen holes with two putts each.
EighteenCase ==
  /\ Len(sb_rounds) = 1 /\ Len(sb_hole_scores) = 18
  /\ \A i \in 1..18 : sb_hole_scores[i].putts = Some(2)

\* C6: avgPutts of the statistics is the total putts of the selected rounds'
\* holes divided by the number of selected rounds, rounded to one decimal.
C6_AvgPuttsPerRound ==
  (StatsLoaded /\ SelectedRounds # {}) =>
    avgPutts = MathRound(PuttSum(SelectedHoles) * 10, Cardinality(SelectedRounds))

\* C6, its case: one round of eighteen two-putt holes gives 36.0.
C6_Witness == StatsLoaded /\ EighteenCase /\ Cardinality(SelectedRounds) = 1 /\ avgPutts = 360

\* C7: avg_putts of a feed entry is the putts per hole that has putts, rounded
\* to one decimal, and null when no hole has putts; on eighteen two-putt holes
\* it is 2.0 where the statistics screen shows 36.0.
C7_FeedAvgPuttsPerHole ==
  /\ FeedLoaded => \A i \in 1..Len(rounds) :
       LET ph == PuttKnown(HoleRowsOf(rounds[i].id)) IN
       rounds[i].avg_putts =
         IF ph = {} THEN NULL ELSE Some(MathRound(PuttSum(ph) * 10, Cardinality(ph)))
  /\ (FeedLoaded /\ StatsLoaded /\ EighteenCase) =>
       rounds[1].avg_putts = Some(20) /\ avgPutts # 20

\* C7, its case: the feed and the statistics both loaded over eighteen two-putt holes.
C7_Witness ==
  FeedLoaded /\ StatsLoaded /\ EighteenCase /\ rounds[1].avg_putts = Some(20) /\ avgPutts = 360

\* C8: the statistics use exactly the N most recent of the player's rounds by
\* date (all of them for 'all' or when there are fewer), and exactly the hole
\* records of those rounds enter the fairway, GIR, putting, miss and wedge figures.
C8_Window ==
  StatsLoaded =>
    /\ filteredIds = {r.id : r \in SelectedRounds}
    /\ Len(filteredRounds) = Cardinality(SelectedRounds)
    /\ Range(filteredScores) = SelectedHoles
    /\ Len(filteredScores) = Cardinality(SelectedHoles)
    /\ Len(fwHoles) = Cardinality(FairwayKnown(SelectedHoles))
    /\ Len(girHoles) = Cardinality(GirKnown(SelectedHoles))
    /\ Len(puttHoles) = Cardinality(PuttKnown(SelectedHoles))
    /\ Len(fwMisses) = Cardinality(MissKnown(SelectedHoles))
    /\ wedgeInTotal = Cardinality(WedgeKnown(SelectedHoles))

\* C8, its case: twelve rounds and the window 5 select the five latest dates.
C8_Witness ==
  /\ StatsLoaded /\ range = "5" /\ Len(allRounds) = 12
  /\ filteredIds = {7, 9, 10, 11, 12}
  /\ \A r \in RoundRows : (r.id \in filteredIds) <=> (r.date_played >= 8)

\* The shots the statistics query returns, and those the claim counts.
ShotIdx == {i \in 1..Len(sb_shots) : sb_shots[i].club # NULL /\ sb_shots[i].distance_yards # NULL}
ValidShotIdx ==
  {i \in ShotIdx : The(sb_shots[i].club) # "" /\ The(sb_shots[i].distance_yards) > 0}
ValidOfClub(c) == {i \in ValidShotIdx : The(sb_shots[i].club) = c}

\* C9: the club list has exactly the clubs with a shot of non-empty club and
\* distance > 0, each with avgDistance = round(sum / count) and its count over
\* those shots, in descending avgDistance.
C9_ClubDistances ==
  (StatsLoaded /\ StatsShown) =>
    /\ {clubs[i].club : i \in 1..Len(clubs)} = {The(sb_shots[i].club) : i \in ValidShotIdx}
    /\ \A i, j \in 1..Len(clubs) : i # j => clubs[i].club # clubs[j].club
    /\ \A i \in 1..Len(clubs) :
         LET idx == ValidOfClub(clubs[i].club) IN
         /\ clubs[i].count = Cardinality(idx)
         /\ idx # {} => clubs[i].avgDistance =
              MathRound(PairSum({<<k, The(sb_shots[k].distance_yards)>> : k \in idx}),
                        Cardinality(idx))
    /\ \A i, j \in 1..Len(clubs) : i < j => clubs[i].avgDistance >= clubs[j].avgDistance

\* The queried shots that were hit on a hole of one of the player's own rounds.
ShotsDataOfUser ==
  SelectSeq(sb_shots, LAMBDA s :
    /\ s.club # NULL /\ s.distance_yards # NULL
    /\ \E i \in 1..Len(sb_hole_scores), j \in 1..Len(sb_rounds) :
         /\ sb_hole_scores[i].id = s.hole_score_id
         /\ sb_rounds[j].id = sb_hole_scores[i].round_id
         /\ sb_rounds[j].user_id = user)

\* C10: the club distances shown to a player are computed from that player's
\* own shots only; another player's shots do not change them.
C10_ClubsFromOwnShotsOnly ==
  (StatsLoaded /\ StatsShown) => clubs = ClubStats(ShotsDataOfUser)

LegacyLoaded == "loadFeedLegacy" \in completed
LegacyFeedIds == {roundsLegacy[i].id : i \in 1..Len(roundsLegacy)}

\* A completed 'partners' round of another player whom the viewer follows.
PartnersRoundOfFollowed(r) ==
  /\ r.is_complete /\ r.visibility = "partners"
  /\ r.user_id # user /\ Follows(user, r.user_id)

\* C12: an accepted follow from the viewer to the owner is enough for the
\* owner's 'partners' round to be in the viewer's feed, whether or not the
\* owner follows back (both revisions of loadFeed).
C12_FollowSufficesForPartners ==
  \A r \in RoundRows : PartnersRoundOfFollowed(r) =>
    /\ FeedLoaded => r.id \in FeedIds
    /\ LegacyLoaded => r.id \in LegacyFeedIds

\* C12, its case: the owner has no relationship towards the viewer at all.
C12_Witness ==
  /\ FeedLoaded /\ LegacyLoaded
  /\ \E r \in RoundRows :
       /\ PartnersRoundOfFollowed(r)
       /\ ~\E q \in sb_relationships : q.user_id = r.user_id /\ q.target_id = user
       /\ r.id \in FeedIds /\ r.id \in LegacyFeedIds

\* The average total score of the selected rounds, in tenths.
SelectedAvgScore ==
  MathRound(PairSum({<<r.id, r.total_score>> : r \in SelectedRounds}) * 10,
            Cardinality(SelectedRounds))

\* C13: the average score shown is round(sum of totalScore / roundCount * 10) / 10
\* over the selected rounds, and no data (never 0) exactly when no round is selected.
C13_AvgScore ==
  StatsLoaded =>
    /\ SelectedRounds # {} => (StatsShown /\ AvgScoreCard = Shown(SelectedAvgScore))
    /\ SelectedRounds = {} => (~StatsShown \/ AvgScoreCard = Dash)

\* Holes with score and par recorded (both > 0), by their difference to par.
Classified(h) == h.score # NULL /\ h.par # NULL /\ The(h.score) > 0 /\ The(h.par) > 0
BirdieHoles(hs) == {h \in hs : Classified(h) /\ The(h.score) = The(h.par) - 1}
EagleHoles(hs) == {h \in hs : Classified(h) /\ The(h.score) <= The(h.par) - 2}

\* C14: a round's birdie count is the number of its holes with score = par - 1
\* and its eagle count the number with score <= par - 2, in the feed entry and
\* in the recent-rounds detail; an eagle is never in a birdie count.
C14_BirdiesAndEaglesApart ==
  /\ FeedLoaded => \A i \in 1..Len(rounds) :
       /\ rounds[i].birdies = Cardinality(BirdieHoles(HoleRowsOf(rounds[i].id)))
       /\ rounds[i].eagles = Cardinality(EagleHoles(HoleRowsOf(rounds[i].id)))
  /\ StatsLoaded => \A i \in 1..Len(recentRounds) :
       RecentBirdies(recentRounds[i]) = Cardinality(BirdieHoles(HoleRowsOf(recentRounds[i].id)))

WedgeSumOf(hs) == PairSum({<<h.id, The(h.wedge_and_in)>> : h \in WedgeKnown(hs)})

\* C15: the wedge-and-in total is the sum over the holes where it is tracked
\* and the tracked-holes figure their number; with no tracked hole the wedge
\* output is absent, with tracked holes of value 0 it is a total of 0.
C15_WedgeTotals ==
  /\ FeedLoaded => \A i \in 1..Len(rounds) :
       LET hs == HoleRowsOf(rounds[i].id) IN
       rounds[i].wedge_total = IF WedgeKnown(hs) = {} THEN NULL ELSE Some(WedgeSumOf(hs))
  /\ StatsLoaded =>
       /\ wedgeInMade = WedgeSumOf(SelectedHoles)
       /\ wedgeInTotal = Cardinality(WedgeKnown(SelectedHoles))
       /\ WedgeSectionShown <=> WedgeKnown(SelectedHoles) # {}

\* C15, its case: the only tracked holes have value 0 and a total of 0 is reported.
C15_Witness ==
  /\ FeedLoaded /\ StatsLoaded /\ Len(rounds) = 1
  /\ WedgeKnown(SelectedHoles) # {}
  /\ \A h \in WedgeKnown(SelectedHoles) : h.wedge_and_in = Some(0)
  /\ WedgeSectionShown /\ wedgeInMade = 0
  /\ rounds[1].wedge_total = Some(0)

RecentMax == 10

\* C16: the recent-rounds detail holds the player's (up to) 10 latest completed
\* rounds, newest first, whatever window is selected, each with the holes of
\* that round in hole order and a wedge subtotal that is the sum over its
\* tracked holes, or null when it has none.
C16_RecentRounds ==
  StatsLoaded =>
    /\ {recentRounds[i].id : i \in 1..Len(recentRounds)} =
         {r.id : r \in {q \in OwnRounds : NewerThan(q) < RecentMax}}
    /\ \A i \in 1..Len(recentRounds) : \E r \in OwnRounds :
         /\ r.id = recentRounds[i].id /\ NewerThan(r) = i - 1
         /\ recentRounds[i].date_played = r.date_played
         /\ recentRounds[i].total_score = r.total_score
    /\ \A i \in 1..Len(recentRounds) :
         LET rr == recentRounds[i]
             hs == HoleRowsOf(rr.id)
         IN /\ Len(rr.holes) = Cardinality(hs)
            /\ \A h \in hs : \E k \in 1..Len(rr.holes) :
                 /\ rr.holes[k].hole_number = h.hole_number
                 /\ rr.holes[k].score = h.score
                 /\ rr.holes[k].fairway_hit = h.fairway_hit
                 /\ rr.holes[k].wedge_and_in = h.wedge_and_in
            /\ \A k \in 1..(Len(rr.holes) - 1) :
                 rr.holes[k].hole_number < rr.holes[k + 1].hole_number
            /\ rr.wedge_total = IF WedgeKnown(hs) = {} THEN NULL ELSE Some(WedgeSumOf(hs))

\* C16, its case: twelve rounds, the window 3 selected, ten recent rounds listed.
C16_Witness ==
  /\ StatsLoaded /\ range = "3" /\ Cardinality(OwnRounds) = 12
  /\ Len(filteredRounds) = 3 /\ Len(recentRounds) = 10
  /\ recentRounds[1].date_played = 12 /\ recentRounds[10].date_played = 3

\* The sum of the scores of a set of hole records (no score counts 0).
ScoreSum(hs) == PairSum({<<h.id, The(h.score)>> : h \in {g \in hs : g.score # NULL}})

\* C11: every stored round's total_score is the sum of the scores of its
\* stored hole records, after any sequence of feed edits.
C11_TotalIsSumOfHoles ==
  \A r \in RoundRows : r.total_score = ScoreSum(HoleRowsOf(r.id))

\* The ids of the rounds of a table, and the rows of the hole scores and of the
\* shots that belong to a set of rounds.
IdsOf(rt) == {rt[i].id : i \in 1..Len(rt)}
HolesOfRounds(ht, ids) == {h \in Range(ht) : h.round_id \in ids}
ShotsOfRounds(st, ht, ids) ==
  {s \in Range(st) : s.hole_score_id \in {h.id : h \in HolesOfRounds(ht, ids)}}

\* C17: a step that deletes a round leaves no hole score and no shot of that
\* round, and leaves the hole scores and shots of every other round as they were.
C17_DeleteCascades ==
  [][\A rid \in IdsOf(sb_rounds) \ IdsOf(sb_rounds') :
       /\ HolesOfRounds(sb_hole_scores', {rid}) = {}
       /\ \A s \in Range(sb_shots') :
            s.hole_score_id \notin {h.id : h \in HolesOfRounds(sb_hole_scores, {rid})}
       /\ HolesOfRounds(sb_hole_scores', IdsOf(sb_rounds')) =
            HolesOfRounds(sb_hole_scores, IdsOf(sb_rounds'))
       /\ Range(sb_hole_scores') = HolesOfRounds(sb_hole_scores', IdsOf(sb_rounds'))
       /\ ShotsOfRounds(sb_shots', sb_hole_scores', IdsOf(sb_rounds')) =
            ShotsOfRounds(sb_shots, sb_hole_scores, IdsOf(sb_rounds'))]_vars

\* C17, its case: round 1 has been deleted, round 2 and its records are still stored.
C17_Witness ==
  /\ 1 \notin IdsOf(sb_rounds) /\ 2 \in IdsOf(sb_rounds)
  /\ HolesOfRounds(sb_hole_scores, {1}) = {}
  /\ HolesOfRounds(sb_hole_scores, {2}) # {}
  /\ Len(sb_shots) = 1 /\ sb_shots[1].hole_score_id = <<2, 1>>

\* The rounds of other players, and their hole scores.
OthersRounds(rt) == {r \in Range(rt) : r.user_id # user}
OthersHoles(rt, ht) == HolesOfRounds(ht, {r.id : r \in OthersRounds(rt)})

\* C18: no step of the feed changes or deletes a round of another player or a
\* hole score of such a round.
C18_OnlyOwnerChanges ==
  [][/\ OthersRounds(sb_rounds') = OthersRounds(sb_rounds)
     /\ OthersHoles(sb_rounds', sb_hole_scores') = OthersHoles(sb_rounds, sb_hole_scores)]_vars

\* C19: whenever a round is expanded and its scorecard is shown, the hole
\* scores on display, and the edit buffer when editing, are those of that round.
C19_ExpandedShowsItsOwnHoles ==
  (expandedId # NULL /\ ~loadingScores) =>
    /\ \A k \in 1..Len(holeScores) : holeScores[k].round_id = The(expandedId)
    /\ editing => \A k \in 1..Len(editScores) : editScores[k].round_id = The(expandedId)

\* The hole scores a step has added, and the round it has added (if any).
AddedHoles == {h \in Range(sb_hole_scores') : h \notin Range(sb_hole_scores)}
AddedRounds == {r \in Range(sb_rounds') : r \notin Range(sb_rounds)}

\* C20: a step of the wizard either stores nothing (and, when it reports, it
\* reports an error), or stores one round with exactly one hole score for
\* every active hole and reports success.
C20_SaveRoundAllOrNothing ==
  [][\/ /\ sb_rounds' = sb_rounds /\ sb_hole_scores' = sb_hole_scores
        /\ report' \in {report, "error"}
     \/ /\ report' = "success"
        /\ \E r \in AddedRounds :
             /\ AddedRounds = {r}
             /\ \A h \in AddedHoles : h.round_id = r.id
             /\ {h.hole_number : h \in AddedHoles} = Range(activeHoleNumbers)
             /\ Cardinality(AddedHoles) = Len(activeHoleNumbers)]_vars

\* C21: a miss direction is recorded only on a missed fairway: in every hole
\* entry of the wizard and in every stored hole score, a non-null
\* fairway_miss_dir implies fairway_hit = false.
C21_MissDirOnlyOnMissedFairway ==
  /\ \A k \in 1..Len(holeEntries) :
       holeEntries[k].fairway_miss_dir # NULL => holeEntries[k].fairway_hit = Some(FALSE)
  /\ \A k \in 1..Len(sb_hole_scores) :
       sb_hole_scores[k].fairway_miss_dir # NULL => sb_hole_scores[k].fairway_hit = Some(FALSE)

\* C22: a step that stores a round stores with it exactly one hole score for
\* every hole played and none for another hole: the hole numbers of the new
\* hole scores are distinct and are the active hole numbers of the wizard.
C22_OneHoleRecordPerHolePlayed ==
  [][AddedRounds # {} =>
       /\ \A h \in AddedHoles : \E r \in AddedRounds : h.round_id = r.id
       /\ \A g, h \in AddedHoles : g.hole_number = h.hole_number => g = h
       /\ {h.hole_number : h \in AddedHoles} = Range(activeHoleNumbers)]_vars

\* C23: once a course is selected or a card is scanned, every active hole
\* number of the wizard has a hole entry, whatever the hole selection and the
\* size of the course.
C23_ActiveHolesHaveEntries ==
  (selectedCourse # NULL \/ Len(holeEntries) # 0) =>
    \A n \in Range(activeHoleNumbers) : n \in 1..Len(holeEntries)

\* C24: score, putts and penalties are never negative, in the hole entries of
\* the wizard and in the stored hole scores.
C24_CountsNotNegative ==
  /\ \A k \in 1..Len(holeEntries) :
       holeEntries[k].score >= 0 /\ holeEntries[k].putts >= 0 /\ holeEntries[k].penalties >= 0
  /\ \A k \in 1..Len(sb_hole_scores) :
       /\ sb_hole_scores[k].score # NULL => The(sb_hole_scores[k].score) >= 0
       /\ sb_hole_scores[k].putts # NULL => The(sb_hole_scores[k].putts) >= 0
       /\ sb_hole_scores[k].penalties >= 0

C26_ShotsMatchScore ==
  trackingMode = "advanced" =>
    \A k \in 1..Len(holeEntries) : Len(holeEntries[k].shots) = holeEntries[k].score

\* C27: when saveEdits has run, the summary of every feed entry (fairway_pct,
\* gir_pct, avg_putts, birdies, eagles) is what the stored hole scores of its
\* round give.
C27_SummaryFollowsEdits ==
  [][saves' # saves =>
       \A i \in 1..Len(rounds') :
         LET hs == SelectSeq(sb_hole_scores', LAMBDA h : h.round_id = rounds'[i].id)
             under(h) == IF TruthyNum(h.score) /\ TruthyNum(h.par)
                         THEN The(h.par) - The(h.score) ELSE 0
         IN /\ rounds'[i].fairway_pct = FeedFairwayPct(hs)
            /\ rounds'[i].gir_pct = FeedGirPct(hs)
            /\ rounds'[i].avg_putts = FeedAvgPutts(hs)
            /\ rounds'[i].birdies = Count(hs, LAMBDA h : under(h) = 1)
            /\ rounds'[i].eagles = Count(hs, LAMBDA h : under(h) >= 2)]_vars

\* C28: in the scorecard being edited, tapping the fairway cell of a hole
\* twice gives back the value the hole had, null included.
C28_FairwayToggleTwiceRestores ==
  editing =>
    \A k \in 1..Len(editScores) :
      Negated(Negated(editScores[k].fairway_hit)) = editScores[k].fairway_hit

\* A bag holds at most MAX_BAG clubs and no club twice.
BagOk(b) == Len(b) <= MAX_BAG /\ \A i, j \in 1..Len(b) : b[i] = b[j] => i = j

\* C29: the bag in memory and the bag persisted never hold more than 14
\* clubs or a club twice, and a toggleClub call for a club that is in the
\* bag takes it out.
C29_BagWithinLimit ==
  /\ [](BagOk(bag) /\ (bagStored # NULL => BagOk(The(bagStored))))
  /\ [][(toggles' = toggles + 1 /\ The(toggled') \in Range(bag)) =>
          The(toggled') \notin Range(bag')]_vars

\* C30: for every hole, getHoleDetails gives the detail of the save that
\* completed last, marked user_modified, or the default (else straight) not
\* marked if a reset completed last or nothing was saved.
C30_OverridesNotLost ==
  \A k \in MetaKeys :
    getHoleDetails(k[1])[k[2]] =
      IF metaLast[k] \in {"none", "reset"}
      THEN [detail |-> IF DefaultData(k[1], k[2]) # NULL THEN The(DefaultData(k[1], k[2]))
                       ELSE "straight",
            user_modified |-> FALSE]
      ELSE [detail |-> metaLast[k], user_modified |-> TRUE]

====
